---- MODULE Spec2Model ----
(***************************************************************************)
(* Preterm baby tracker: participants, their due dates and completion      *)
(* status, the role-gated views that write them, the completion-report     *)
(* export and the reminder command (tracking/models.py, tracking/views.py, *)
(* tracking/management/commands/send_ro_reminders.py).                     *)
(*                                                                         *)
(* Dates are day numbers (Int).  Text is a sequence of characters, so that *)
(* str.strip() and truthiness are computed, and Python's None is the       *)
(* value None.                                                             *)
(***************************************************************************)
EXTENDS Integers, Sequences, FiniteSets, TLC

VARIABLES today, participants, response, accounts, sessions, attempts, now,
          screenings

vars == <<today, participants, response, accounts, sessions, attempts, now,
          screenings>>

\* the user table and the sessions, the AccessAttempt table and the clock
\* (screenings is the ScreeningSession table, in creation order)
auth_vars == <<accounts, sessions, attempts, now>>

-----------------------------------------------------------------------------
(* Bounds of the model *)

\* participants that can be registered in one behaviour
MaxParticipants == 1
\* the calendar runs over the days 0..MaxDay
MaxDay == 1
\* the 3-digit numbers an operator types as study id are 1..MaxStudyNo
MaxStudyNo == 1

-----------------------------------------------------------------------------
(* Values *)

None == <<"None">>

\* the texts a request carries in a comment box: absent, blank, text to strip
CommentInputs == {None, <<>>, <<" ">>, <<" ", "a">>, <<"a", " ">>, <<"a">>}

\* a checkbox of an HTML form is absent from the POST data or sent as "on"
CheckboxInputs == {None, <<"o", "n">>}

\* Participant.save: due_date = enrollment_date + timedelta(days=7)
DueDays == 7

\* enrollment dates an operator enters: the first day of the calendar, or a
\* week before it (a record that is due as the calendar starts)
EnrollDates == {0 - DueDays, 0}

Sites == {"S1", "S2"}

Methods == {"GET", "POST"}

\* The (checkbox, comment) pairs of Participant; the comment field of
\* checkbox f is f_comment.
Fields ==
    { "monitor_downloaded", "ultrasound_downloaded",
      "case_report_form_uploaded", "video_laryngoscope_uploaded",
      "rop_final_report_uploaded", "head_ultrasound_images_uploaded",
      "head_ultrasound_report_uploaded", "cost_effectiveness_data_uploaded",
      "blood_culture_done", "admission_notes_day1_uploaded",
      "admission_notes_24hr_uploaded", "vital_sign_monitoring_done" }

\* Every attribute a Participant instance has besides the pairs of Fields.
\* getattr(p, name, default) yields the default for any other name and
\* p.name raises AttributeError.
ParticipantAttrs ==
    Fields \cup { f \o "_comment" : f \in Fields } \cup
    { "site", "screening_session", "study_id", "enrollment_date", "due_date",
      "monitor_downloaded_at", "monitor_downloaded_by",
      "ultrasound_downloaded_at", "ultrasound_downloaded_by",
      "date_of_birth", "created_at", "days_remaining", "pk", "id" }

NoSite == "None"

NoUser == "None"

NoTime == 0 - 1

\* The accounts.  role is one of ROLE_CHOICES ('AD' is displayed as 'PI');
\* an account made by createsuperuser has the empty role and no site.
Users ==
    { [name |-> "ra1", role |-> "RA", site |-> "S1", is_superuser |-> FALSE, is_active |-> TRUE],
      [name |-> "ro1", role |-> "RO", site |-> "S1", is_superuser |-> FALSE, is_active |-> TRUE],
      [name |-> "ad2", role |-> "AD", site |-> "S2", is_superuser |-> FALSE, is_active |-> TRUE],
      [name |-> "su",  role |-> "",   site |-> NoSite, is_superuser |-> TRUE, is_active |-> TRUE],
      [name |-> "pi",  role |-> "AD", site |-> "S1", is_superuser |-> TRUE, is_active |-> TRUE] }

-----------------------------------------------------------------------------
(* Text *)

\* bool(v) of a text or None
Truthy(v) == v # None /\ v # <<>>

RECURSIVE lstrip(_)
lstrip(s) == IF s # <<>> /\ Head(s) = " " THEN lstrip(Tail(s)) ELSE s

RECURSIVE rstrip(_)
rstrip(s) ==
    IF s # <<>> /\ s[Len(s)] = " " THEN rstrip(SubSeq(s, 1, Len(s) - 1)) ELSE s

\* str.strip()
strip(s) == rstrip(lstrip(s))

-----------------------------------------------------------------------------
(* tracking/models.py: Participant *)

\* A freshly constructed Participant: the field defaults of the model.
NewParticipant(site, study_id, enrollment_date) ==
    [ site |-> site,
      study_id |-> study_id,
      enrollment_date |-> enrollment_date,
      due_date |-> NoTime,
      checkbox |-> [f \in Fields |-> FALSE],
      comment |-> [f \in Fields |-> None],
      monitor_downloaded_at |-> NoTime,
      monitor_downloaded_by |-> NoUser,
      ultrasound_downloaded_at |-> NoTime,
      ultrasound_downloaded_by |-> NoUser ]

\* a plausible slip: the row is written without recomputing the due date
save_no_recalc(p) == p

\* Participant.save: the row that is written
save(p) == [p EXCEPT !.due_date = p.enrollment_date + DueDays]

\* Participant.days_remaining
days_remaining(p) == p.due_date - today

\* a plausible slip: green starts a day early
status_color_green_from_three(p) ==
    LET days == days_remaining(p) IN
    IF days >= 3 THEN "green"
    ELSE IF 2 <= days /\ days <= 3 THEN "yellow"
    ELSE IF 0 <= days /\ days <= 1 THEN "red"
    ELSE "overdue"

\* a plausible slip: the day the record is due counts as overdue
status_color_off_by_one(p) ==
    LET days == days_remaining(p) IN
    IF days >= 4 THEN "green"
    ELSE IF 2 <= days /\ days <= 3 THEN "yellow"
    ELSE IF 1 <= days /\ days <= 1 THEN "red"
    ELSE "overdue"

\* Participant.status_color
status_color(p) ==
    LET days == days_remaining(p) IN
    IF days >= 4 THEN "green"
    ELSE IF 2 <= days /\ days <= 3 THEN "yellow"
    ELSE IF 0 <= days /\ days <= 1 THEN "red"
    ELSE "overdue"

\* required_items of Participant.is_completed, in the order of the list
required_items ==
    << "monitor_downloaded", "ultrasound_downloaded",
       "head_ultrasound_images_uploaded", "head_ultrasound_report_uploaded",
       "case_report_form_uploaded", "video_laryngoscope_uploaded",
       "rop_final_report_uploaded", "cost_effectiveness_data_uploaded",
       "admission_notes_day1_uploaded" >>

\* the for loop of Participant.is_completed from position i on
RECURSIVE is_completed_from(_, _)
is_completed_from(p, i) ==
    IF i > Len(required_items) THEN TRUE
    ELSE IF ~p.checkbox[required_items[i]] /\ ~Truthy(p.comment[required_items[i]])
         THEN FALSE
         ELSE is_completed_from(p, i + 1)

\* a plausible slip: only the checkbox counts
is_completed_checkbox_only(p) ==
    \A i \in 1..Len(required_items) : p.checkbox[required_items[i]]

\* Participant.is_completed
is_completed(p) == is_completed_from(p, 1)

-----------------------------------------------------------------------------
(* tracking/views.py: helpers *)

Pks == 1..Len(participants)

\* every pk a request can name: the stored ones and one that is not stored
RequestPks == 1..(MaxParticipants + 1)

\* what a run of the reminder command leaves behind; NotRun when the last
\* operation was not the command
NotRun ==
    [status |-> "not_run", failed_at |-> {}, due |-> <<>>, overdue |-> <<>>,
     skipped |-> {}, mails |-> {}, logs |-> {}]

\* response is what the last operation answered: the view that answered, the
\* page or redirect it gave, the pks listed in the body (the PDF table); for
\* the reminder command, run is what it did.
Response(view, user, method, status, rows) ==
    [view |-> view, status |-> status, rows |-> rows, run |-> NotRun]

NoResponse == [view |-> "", status |-> "", rows |-> {}, run |-> NotRun]

\* the outcome of a view: the table after it and the response
Outcome(table, resp) == [participants |-> table, response |-> resp]

\* a plausible slip: everybody gets the queryset of a superuser
get_user_participants_all(user) == Pks

\* get_user_participants: the pks of the queryset
get_user_participants(user) ==
    IF user.is_superuser THEN Pks
    ELSE { pk \in Pks : participants[pk].site = user.site }

-----------------------------------------------------------------------------
(* tracking/views.py and tracking/forms.py: register_participant *)

StudyNos == 1..MaxStudyNo

\* the POST data of the registration form; wellformed says that the study
\* id is three digits and both dates parse
RegisterForms ==
    [study_no : StudyNos, enrollment_date : EnrollDates,
     site : Sites \cup {NoSite}, wellformed : {TRUE}]
    \cup [study_no : StudyNos, enrollment_date : {0}, site : {NoSite}, wellformed : {FALSE}]

\* ParticipantForm.clean_study_id: study_id is cleaned before site, so
\* cleaned_data has no site yet and the prefix is the user's own site
full_study_id(user, form) == <<user.site, form.study_no>>

\* ParticipantForm.is_valid
ParticipantForm_is_valid(user, form) ==
    /\ form.wellformed
    /\ user.site # NoSite
    /\ \A pk \in Pks : participants[pk].study_id # full_study_id(user, form)
    /\ (user.role \in {"AD", "RO"} => form.site # NoSite)

\* ParticipantForm.save(commit=False): the site field is popped for an RA and
\* the instance takes the user's site
ParticipantForm_save(user, form) ==
    NewParticipant(IF user.role = "RA" THEN user.site ELSE form.site,
                   full_study_id(user, form), form.enrollment_date)

\* a plausible slip: the role check of the RO dashboard pasted here
may_register_as_ro(user) == user.role \in {"RO", "AD"} \/ user.is_superuser

\* register_participant: who passes the role check
may_register(user) == user.role \in {"RA", "AD"} \/ user.is_superuser

register_participant_result(user, method, form) ==
    IF ~may_register(user)
    THEN Outcome(participants, Response("register_participant", user, method, "forbidden", {}))
    ELSE IF method = "POST"
    THEN IF ParticipantForm_is_valid(user, form)
         THEN LET participant == ParticipantForm_save(user, form) IN
              IF participant.site = NoSite
              \* reading participant.site of an instance without a site raises
              \* RelatedObjectDoesNotExist
              THEN Outcome(participants,
                           Response("register_participant", user, method, "error", {}))
              ELSE Outcome(Append(participants, save(participant)),
                           Response("register_participant", user, method, "redirect", {}))
         ELSE Outcome(participants,
                      Response("register_participant", user, method, "form_errors", {}))
    ELSE Outcome(participants, Response("register_participant", user, method, "form", {}))

-----------------------------------------------------------------------------
(* tracking/views.py: update_participant *)

\* the POST data of the detail form: what each checkbox and comment box sends
AllUnchecked == [checkbox |-> [f \in Fields |-> None], comment |-> [f \in Fields |-> None]]

AllChecked ==
    [checkbox |-> [f \in Fields |-> <<"o", "n">>], comment |-> [f \in Fields |-> None]]

\* the forms sent: nothing ticked, everything ticked, and nothing ticked with
\* a comment (to be stripped) on the monitor data
PostForms ==
    { AllUnchecked, AllChecked,
      [AllUnchecked EXCEPT !.comment["monitor_downloaded"] = <<" ", "a">>] }

\* (request.POST.get(comment_field) or "").strip()
comment_value(post, f) ==
    strip(IF Truthy(post.comment[f]) THEN post.comment[f] ELSE <<>>)

\* a plausible slip: the RA dashboard's role check pasted here
may_update_as_ra(user) == user.role \in {"RA", "AD"} \/ user.is_superuser

\* update_participant: who passes the role check
may_update(user) == user.role \in {"RO", "AD"} \/ user.is_superuser

\* a plausible slip: the comment is not counted for the checkbox
update_fields_checkbox_only(p, post) ==
    [p EXCEPT
       !.comment = [f \in Fields |->
                      IF Truthy(comment_value(post, f)) THEN comment_value(post, f) ELSE None],
       !.checkbox = [f \in Fields |-> Truthy(post.checkbox[f])]]

\* the loop over ro_fields
update_fields(p, post) ==
    [p EXCEPT
       !.comment = [f \in Fields |->
                      IF Truthy(comment_value(post, f)) THEN comment_value(post, f) ELSE None],
       !.checkbox = [f \in Fields |->
                      Truthy(post.checkbox[f]) \/ Truthy(comment_value(post, f))]]

update_participant_result(user, pk, method, post) ==
    IF pk \notin Pks
    THEN Outcome(participants, Response("update_participant", user, method, "not_found", {}))
    ELSE IF ~may_update(user)
    THEN Outcome(participants, Response("update_participant", user, method, "forbidden", {}))
    ELSE IF method = "POST"
    THEN Outcome([participants EXCEPT ![pk] = save(update_fields(participants[pk], post))],
                 Response("update_participant", user, method,
                          IF user.role = "RO" THEN "redirect_ro_dashboard"
                          ELSE IF user.role = "AD" \/ user.is_superuser
                               THEN "redirect_choose_dashboard"
                               ELSE "redirect_participant_detail", {}))
    ELSE Outcome(participants,
                 Response("update_participant", user, method, "redirect_participant_detail", {}))

-----------------------------------------------------------------------------
(* tracking/views.py: quick mark actions *)

\* a plausible slip: only the site is tested
mark_refused_site_only(user, p) == ~user.is_superuser /\ p.site # user.site

\* the permission test of both mark views: TRUE when the request is refused
mark_refused(user, p) ==
    ~user.is_superuser /\ (p.site # user.site \/ user.role \notin {"RO", "AD"})

mark_monitor_downloaded_result(user, pk, method) ==
    IF method = "POST"
    THEN IF pk \notin Pks
         THEN Outcome(participants,
                      Response("mark_monitor_downloaded", user, method, "not_found", {}))
         ELSE IF mark_refused(user, participants[pk])
         THEN Outcome(participants,
                      Response("mark_monitor_downloaded", user, method, "forbidden", {}))
         ELSE Outcome([participants EXCEPT ![pk] =
                         save([@ EXCEPT !.checkbox["monitor_downloaded"] = TRUE,
                                        !.monitor_downloaded_at = today,
                                        !.monitor_downloaded_by = user.name])],
                      Response("mark_monitor_downloaded", user, method,
                               "redirect_ro_dashboard", {}))
    ELSE Outcome(participants,
                 Response("mark_monitor_downloaded", user, method, "redirect_ro_dashboard", {}))

mark_ultrasound_downloaded_result(user, pk, method) ==
    IF method = "POST"
    THEN IF pk \notin Pks
         THEN Outcome(participants,
                      Response("mark_ultrasound_downloaded", user, method, "not_found", {}))
         ELSE IF mark_refused(user, participants[pk])
         THEN Outcome(participants,
                      Response("mark_ultrasound_downloaded", user, method, "forbidden", {}))
         ELSE Outcome([participants EXCEPT ![pk] =
                         save([@ EXCEPT !.checkbox["ultrasound_downloaded"] = TRUE,
                                        !.ultrasound_downloaded_at = today,
                                        !.ultrasound_downloaded_by = user.name])],
                      Response("mark_ultrasound_downloaded", user, method,
                               "redirect_ro_dashboard", {}))
    ELSE Outcome(participants,
                 Response("mark_ultrasound_downloaded", user, method,
                          "redirect_ro_dashboard", {}))

-----------------------------------------------------------------------------
(* tracking/views.py: download_completed_pdf *)

\* download_completed_pdf: who passes the role check
may_download(user) == user.role = "AD" \/ user.is_superuser

\* the checkboxes the list comprehension fully_completed tests
pdf_items ==
    { "head_ultrasound_images_uploaded", "head_ultrasound_report_uploaded",
      "video_laryngoscope_uploaded", "rop_final_report_uploaded",
      "cost_effectiveness_data_uploaded", "blood_culture_done" }

\* fully_completed: the participants written to the table
fully_completed(user) ==
    { pk \in get_user_participants(user) :
        /\ participants[pk].checkbox["monitor_downloaded"]
        /\ participants[pk].checkbox["ultrasound_downloaded"]
        /\ \A f \in pdf_items : participants[pk].checkbox[f] }

download_completed_pdf_result(user) ==
    IF ~may_download(user)
    THEN Outcome(participants,
                 Response("download_completed_pdf", user, "GET", "redirect_choose_dashboard", {}))
    ELSE IF ~user.is_superuser /\ user.site = NoSite
    \* request.user.site.name of a user without a site raises AttributeError
    THEN Outcome(participants, Response("download_completed_pdf", user, "GET", "error", {}))
    ELSE Outcome(participants,
                 Response("download_completed_pdf", user, "GET", "pdf", fully_completed(user)))

-----------------------------------------------------------------------------
(* tracking/management/commands/send_ro_reminders.py: Command.handle *)

\* Participant.objects.all(): Meta.ordering is -enrollment_date (rows of one
\* date are taken in pk order)
all_participants ==
    CHOOSE order \in [Pks -> Pks] :
        /\ \A i, j \in Pks : i # j => order[i] # order[j]
        /\ \A i, j \in Pks :
             i < j =>
               \/ participants[order[i]].enrollment_date > participants[order[j]].enrollment_date
               \/ /\ participants[order[i]].enrollment_date = participants[order[j]].enrollment_date
                  /\ order[i] < order[j]

\* p.checkbox or p.comment: what the command counts as complete
checked_or_commented(p, f) == p.checkbox[f] \/ Truthy(p.comment[f])

\* getattr(p, "rop_exam_done", False): Participant has no such attribute
rop_exam_done(p) ==
    IF "rop_exam_done" \in ParticipantAttrs THEN p.rop_exam_done ELSE FALSE

Item(missing, name) == IF missing THEN <<name>> ELSE <<>>

\* the list missing_items the loop body builds for p
missing_items(p) ==
    Item(~checked_or_commented(p, "monitor_downloaded"), "Monitor Data")
    \o Item(~checked_or_commented(p, "ultrasound_downloaded"), "Ultrasound Data")
    \o Item(~checked_or_commented(p, "case_report_form_uploaded"), "Case Report Form")
    \o Item(~checked_or_commented(p, "video_laryngoscope_uploaded"), "Video Laryngoscope")
    \o Item(~rop_exam_done(p), "ROP Exam")
    \o Item(rop_exam_done(p) /\ ~p.checkbox["rop_final_report_uploaded"], "ROP Final Report")
    \o Item(~checked_or_commented(p, "head_ultrasound_images_uploaded"), "Head US Images")
    \o Item(~checked_or_commented(p, "head_ultrasound_report_uploaded"), "Head US Report")
    \o Item(~checked_or_commented(p, "cost_effectiveness_data_uploaded"), "Cost Effectiveness Data")
    \o Item(~checked_or_commented(p, "blood_culture_done"), "Blood Culture")
    \o Item(~checked_or_commented(p, "admission_notes_day1_uploaded"), "Admission Notes Day 1")

Contains(seq, x) == \E i \in 1..Len(seq) : seq[i] = x

\* the group the loop body appends the row to
reminder_group(days) ==
    IF days \in {2, 1, 0} THEN "due" ELSE IF days < 0 THEN "overdue" ELSE "none"

\* the for loop over participants from position i of the queryset on:
\* reminders as collected so far, skipped the pks that took `continue`
RECURSIVE collect(_, _, _)
collect(order, i, acc) ==
    IF i > Len(order) THEN acc
    ELSE LET pk == order[i]
             p == participants[pk]
             days == days_remaining(p)
             missing == missing_items(p)
             r == [site |-> p.site, days |-> days, pk |-> pk, missing |-> missing]
         IN  IF missing = <<>>
             THEN collect(order, i + 1, [acc EXCEPT !.skipped = @ \cup {pk}])
             ELSE IF Contains(missing, "ROP Exam") /\ "rop_due_date" \notin ParticipantAttrs
             \* p.rop_due_date raises AttributeError: the command ends here
             THEN [acc EXCEPT !.status = "AttributeError", !.failed_at = {pk}]
             ELSE IF reminder_group(days) = "due"
             THEN collect(order, i + 1, [acc EXCEPT !.due = Append(@, r)])
             ELSE IF reminder_group(days) = "overdue"
             THEN collect(order, i + 1, [acc EXCEPT !.overdue = Append(@, r)])
             ELSE collect(order, i + 1, acc)

Range(seq) == { seq[i] : i \in 1..Len(seq) }

\* superusers: CustomUser.objects.filter(is_superuser=True, is_active=True)
superusers == { u \in Users : u.is_superuser /\ u.is_active }

\* recipients of the due reminder of one site
due_recipients(site) ==
    { u \in Users : u.role \in {"RO", "RA", "AD"} /\ u.site = site /\ u.is_active }
    \cup superusers

\* recipients of the overdue reminder
overdue_recipients ==
    { u \in Users : u.role \in {"RO", "RA", "AD"} /\ u.is_active } \cup superusers

\* critical_items of a reminder
critical_items(r) ==
    SelectSeq(<<"Ultrasound Data", "Blood Culture", "ROP Exam", "ROP Final Report">>,
              LAMBDA i : Contains(r.missing, i))

\* the test that guards the PI alert: user.is_superuser and user.role == "PI"
is_pi_recipient(user) == user.is_superuser /\ user.role = "PI"

\* the mails of the send phase: who got which rows (pks), and the
\* 'Critical Pending Items' mails
mails_sent(due, overdue) ==
    UNION { { [kind |-> "due", to |-> u.name,
               pks |-> { r.pk : r \in { x \in Range(due) : x.site = site } }] :
                u \in due_recipients(site) } :
            site \in { r.site : r \in Range(due) } }
    \cup { [kind |-> "overdue", to |-> u.name, pks |-> { r.pk : r \in Range(overdue) }] :
        u \in IF overdue = <<>> THEN {} ELSE overdue_recipients }
    \cup { [kind |-> "critical", to |-> ur[1].name, pks |-> {ur[2].pk}] :
        ur \in { x \in (UNION { due_recipients(r.site) : r \in Range(due) }) \X Range(due) :
                   is_pi_recipient(x[1]) /\ critical_items(x[2]) # <<>> } }
    \cup { [kind |-> "critical", to |-> ur[1].name, pks |-> {ur[2].pk}] :
        ur \in { x \in overdue_recipients \X Range(overdue) :
                   is_pi_recipient(x[1]) /\ critical_items(x[2]) # <<>> } }

\* the NotificationLog rows created: every reminder of the group is logged
\* for every recipient
logs_created(due, overdue) ==
    { [participant |-> r.pk, notification_type |-> "DAILY_PROMPT", recipient |-> u.name] :
        r \in Range(due), u \in UNION { due_recipients(x.site) : x \in Range(due) } }
    \cup { [participant |-> r.pk, notification_type |-> "OVERDUE_ALERT", recipient |-> u.name] :
        r \in Range(overdue), u \in overdue_recipients }

\* Command.handle: what one run of the command does
handle_result ==
    LET collected == collect(all_participants, 1, [NotRun EXCEPT !.status = "collecting"])
    IN  IF collected.status = "AttributeError" THEN collected
        ELSE [collected EXCEPT !.status = "success",
                               !.mails = mails_sent(collected.due, collected.overdue),
                               !.logs = logs_created(collected.due, collected.overdue)]

-----------------------------------------------------------------------------
(* tracking/views.py: pending_participants, completed_participants and the
   dashboards *)

\* the checkboxes pending_participants tests, in its order, and the label each
\* adds to missing
tracked_items ==
    << <<"monitor_downloaded", "Monitor">>,
       <<"ultrasound_downloaded", "Ultrasound">>,
       <<"case_report_form_uploaded", "CRF">>,
       <<"video_laryngoscope_uploaded", "Video Laryngoscope">>,
       <<"rop_final_report_uploaded", "ROP Final Report">>,
       <<"head_ultrasound_images_uploaded", "Head US Images">>,
       <<"head_ultrasound_report_uploaded", "Head US Report">>,
       <<"cost_effectiveness_data_uploaded", "Cost-Effect">>,
       <<"blood_culture_done", "Blood Culture">>,
       <<"admission_notes_day1_uploaded", "Notes Day 1">> >>

\* the list missing that pending_participants builds for p
missing(p) ==
    LET unchecked == SelectSeq(tracked_items, LAMBDA item : ~p.checkbox[item[1]])
    IN  [i \in 1..Len(unchecked) |-> unchecked[i][2]]

\* pending_participants(participants), participants a list of pks
pending_participants(queryset) ==
    LET pending == SelectSeq(queryset, LAMBDA pk : missing(participants[pk]) # <<>>)
    IN  [i \in 1..Len(pending) |->
           [participant |-> pending[i], missing |-> missing(participants[pending[i]])]]

\* the checkboxes in the all([...]) of completed_participants
completed_items ==
    { "monitor_downloaded", "ultrasound_downloaded", "case_report_form_uploaded",
      "video_laryngoscope_uploaded", "rop_final_report_uploaded",
      "head_ultrasound_images_uploaded", "head_ultrasound_report_uploaded",
      "cost_effectiveness_data_uploaded", "blood_culture_done",
      "admission_notes_day1_uploaded" }

\* a plausible slip: the test of the PDF export pasted here
completed_participants_as_pdf(queryset) ==
    SelectSeq(queryset,
              LAMBDA pk : /\ participants[pk].checkbox["monitor_downloaded"]
                          /\ participants[pk].checkbox["ultrasound_downloaded"]
                          /\ \A f \in pdf_items : participants[pk].checkbox[f])

\* completed_participants(participants)
completed_participants(queryset) ==
    SelectSeq(queryset, LAMBDA pk : \A f \in completed_items : participants[pk].checkbox[f])

\* sorted(list, key=...): a stable sort; key is a function of the pk
RECURSIVE sorted(_, _)
sorted(list, key) ==
    IF list = <<>> THEN <<>>
    ELSE LET front == sorted(SubSeq(list, 1, Len(list) - 1), key)
             last == list[Len(list)]
             k == Cardinality({ i \in 1..Len(front) : key[front[i]] <= key[last] })
         IN  SubSeq(front, 1, k) \o <<last>> \o SubSeq(front, k + 1, Len(front))

\* the queryset get_user_participants(user) in the order of Meta.ordering
queryset(user) ==
    SelectSeq([i \in 1..Len(participants) |-> all_participants[i]],
              LAMBDA pk : pk \in get_user_participants(user))

\* choose_dashboard; rows of the response: the participants in the context
choose_dashboard_result(user) ==
    IF user.role \notin {"AD", "RO", "RA"} /\ ~user.is_superuser
    THEN Outcome(participants, Response("choose_dashboard", user, "GET", "forbidden", {}))
    ELSE LET shown == IF user.is_superuser
                      THEN [i \in 1..Len(participants) |-> all_participants[i]]
                      ELSE queryset(user)
             pending == pending_participants(shown)
             completed == completed_participants(shown)
         IN  Outcome(participants,
                     Response("choose_dashboard", user, "GET", "choose_dashboard",
                              Range(shown)
                                \cup { pending[i].participant : i \in 1..Len(pending) }
                                \cup Range(completed)))

\* ra_dashboard: the list sorted_participants
ra_dashboard_list(user) ==
    LET shown == SelectSeq([i \in 1..Len(participants) |-> all_participants[i]],
                           LAMBDA pk : user.is_superuser
                                         \/ participants[pk].site = user.site)
        pending_list ==
            SelectSeq(shown,
                      LAMBDA pk : ~(\A f \in completed_items : participants[pk].checkbox[f]))
    IN  sorted(pending_list, [pk \in Pks |-> 0 - participants[pk].enrollment_date])

\* ra_dashboard
ra_dashboard_result(user) ==
    IF user.role \notin {"RA", "AD"} /\ ~user.is_superuser
    THEN Outcome(participants, Response("ra_dashboard", user, "GET", "forbidden", {}))
    ELSE Outcome(participants,
                 Response("ra_dashboard", user, "GET", "ra_dashboard",
                          Range(ra_dashboard_list(user))))

\* a plausible slip: the sort of the RA dashboard (newest enrollment first)
\* pasted here
ro_dashboard_list_as_ra(user) ==
    LET shown == queryset(user)
        completed == completed_participants(shown)
        pending == SelectSeq(shown, LAMBDA pk : ~Contains(completed, pk))
    IN  sorted(pending, [pk \in Pks |-> 0 - participants[pk].enrollment_date])

\* ro_dashboard: the list sorted_participants
ro_dashboard_list(user) ==
    LET shown == queryset(user)
        completed == completed_participants(shown)
        pending == SelectSeq(shown, LAMBDA pk : ~Contains(completed, pk))
    IN  sorted(pending, [pk \in Pks |-> days_remaining(participants[pk])])

\* ro_dashboard
ro_dashboard_result(user) ==
    IF user.role \notin {"RO", "AD"} /\ ~user.is_superuser
    THEN Outcome(participants, Response("ro_dashboard", user, "GET", "forbidden", {}))
    ELSE Outcome(participants,
                 Response("ro_dashboard", user, "GET", "ro_dashboard",
                          Range(ro_dashboard_list(user))))

\* participant_detail
participant_detail_result(user, pk) ==
    IF pk \notin Pks
    THEN Outcome(participants, Response("participant_detail", user, "GET", "not_found", {}))
    ELSE IF ~user.is_superuser /\ participants[pk].site # user.site
    THEN Outcome(participants, Response("participant_detail", user, "GET", "forbidden", {}))
    ELSE Outcome(participants, Response("participant_detail", user, "GET", "detail", {pk}))

-----------------------------------------------------------------------------
(* tracking/models.py: CustomUser; tracking/views.py: authentication views *)

\* accounts a behaviour can create through signup
MaxSignups == 2

\* the letters of the usernames: str.lower() maps Upper[i] to Lower[i]
Upper == <<"A", "B", "S">>

Lower == <<"a", "b", "s">>

lower_char(c) ==
    IF \E i \in 1..Len(Upper) : Upper[i] = c
    THEN Lower[CHOOSE i \in 1..Len(Upper) : Upper[i] = c]
    ELSE c

\* str.lower()
lower(s) == [i \in 1..Len(s) |-> lower_char(s[i])]

\* the lookup username__iexact
iexact(stored, typed) == lower(stored) = lower(typed)

\* a row of the user table; pk is the position in accounts
Account(username, email, role, site, is_superuser, is_active) ==
    [username |-> username, password |-> "p", email |-> email, role |-> role,
     site |-> site, is_superuser |-> is_superuser, is_active |-> is_active,
     deleted |-> FALSE]

\* the row of a deleted user: its pk is not given to another user
DeletedAccount ==
    [username |-> None, password |-> "", email |-> "", role |-> "", site |-> NoSite,
     is_superuser |-> FALSE, is_active |-> FALSE, deleted |-> TRUE]

\* the accounts that exist before anybody signs up: a PI and the account made
\* by createsuperuser
StaffAccounts ==
    << Account(<<"a">>, "e0", "AD", "S1", FALSE, TRUE),
       Account(<<"s">>, "e9", "", NoSite, TRUE, TRUE) >>

\* User.objects.all(): the pks of the rows
UserPks == { pk \in 1..Len(accounts) : ~accounts[pk].deleted }

\* every user id a request can name: the stored ones and one that is not
RequestUserIds == 1..(Len(accounts) + 1)

\* the outcome of an authentication view
AuthOutcome(table, logged_in, resp) ==
    [accounts |-> table, sessions |-> logged_in, response |-> resp]

\* the POST data of the signup form: two usernames that differ only in case,
\* a second email, a form without site and one that is not wellformed (the
\* two passwords differ or fail the validators, or the email does not parse)
SignupForms ==
    { [username |-> <<"B">>, email |-> "e1", role |-> "RO", site |-> "S1", wellformed |-> TRUE],
      [username |-> <<"b">>, email |-> "e2", role |-> "AD", site |-> "S1", wellformed |-> TRUE],
      [username |-> <<"b">>, email |-> "e1", role |-> "RO", site |-> "S1", wellformed |-> TRUE],
      [username |-> <<"b">>, email |-> "e2", role |-> "RO", site |-> NoSite, wellformed |-> TRUE],
      [username |-> <<"b">>, email |-> "e2", role |-> "RO", site |-> "S1", wellformed |-> FALSE] }

\* SignupForm.is_valid.  The username is unique in the table; whether a
\* username that differs from a stored one only in case is refused too depends
\* on the UserCreationForm installed: rejects_case_variants.
SignupForm_is_valid(form, rejects_case_variants) ==
    /\ form.wellformed
    /\ \A pk \in UserPks : accounts[pk].username # form.username
    /\ rejects_case_variants =>
         \A pk \in UserPks : ~iexact(accounts[pk].username, form.username)
    /\ \A pk \in UserPks : accounts[pk].email # form.email
    /\ form.role \in {"RA", "RO", "AD"}
    /\ form.site # NoSite

\* a plausible slip: the new account is stored as it is built, active
signup_active_result(method, form, rejects_case_variants) ==
    IF method = "POST" /\ SignupForm_is_valid(form, rejects_case_variants)
    THEN AuthOutcome(Append(accounts, Account(form.username, form.email, form.role,
                                              form.site, FALSE, TRUE)),
                     sessions, Response("signup", NoUser, method, "redirect_login", {}))
    ELSE AuthOutcome(accounts, sessions, Response("signup", NoUser, method, "form", {}))

\* signup
signup_result(method, form, rejects_case_variants) ==
    IF method = "POST"
    THEN IF SignupForm_is_valid(form, rejects_case_variants)
         THEN IF form.role \in {"RA", "RO", "AD"} /\ form.site = NoSite
              THEN AuthOutcome(accounts, sessions,
                               Response("signup", NoUser, method, "form_errors", {}))
              ELSE AuthOutcome(Append(accounts,
                                      Account(form.username, form.email, form.role,
                                              form.site, FALSE, FALSE)),
                               sessions,
                               Response("signup", NoUser, method, "redirect_login", {}))
         ELSE AuthOutcome(accounts, sessions,
                          Response("signup", NoUser, method, "form_errors", {}))
    ELSE AuthOutcome(accounts, sessions, Response("signup", NoUser, method, "form", {}))

\* approve_user and reject_user: who passes the role check
may_approve(user) == user.role = "AD" \/ user.is_superuser

\* @login_required: the request carries the session of a stored user
is_authenticated(requester) == requester \in sessions /\ requester \in UserPks

\* approve_user
approve_user_result(requester, user_id) ==
    IF ~is_authenticated(requester)
    THEN AuthOutcome(accounts, sessions,
                     Response("approve_user", NoUser, "GET", "redirect_login", {}))
    ELSE IF ~may_approve(accounts[requester])
    THEN AuthOutcome(accounts, sessions,
                     Response("approve_user", NoUser, "GET", "forbidden", {}))
    ELSE IF user_id \notin UserPks
    THEN AuthOutcome(accounts, sessions,
                     Response("approve_user", NoUser, "GET", "not_found", {}))
    ELSE AuthOutcome([accounts EXCEPT ![user_id].is_active = TRUE], sessions,
                     Response("approve_user", NoUser, "GET", "redirect_choose_dashboard",
                              {user_id}))

\* reject_user
reject_user_result(requester, user_id) ==
    IF ~is_authenticated(requester)
    THEN AuthOutcome(accounts, sessions,
                     Response("reject_user", NoUser, "GET", "redirect_login", {}))
    ELSE IF ~may_approve(accounts[requester])
    THEN AuthOutcome(accounts, sessions,
                     Response("reject_user", NoUser, "GET", "forbidden", {}))
    ELSE IF user_id \notin UserPks
    THEN AuthOutcome(accounts, sessions,
                     Response("reject_user", NoUser, "GET", "not_found", {}))
    ELSE AuthOutcome([accounts EXCEPT ![user_id] = DeletedAccount],
                     sessions \ {user_id},
                     Response("reject_user", NoUser, "GET", "redirect_choose_dashboard",
                              {user_id}))

\* the usernames and passwords typed into the login form
LoginUsernames == { <<"b">>, <<"B">>, <<" ", "b">>, <<"a">>, <<"s">>, <<"c">> }

LoginPasswords == {"p", "q"}

\* authenticate(request, username, password) with ModelBackend: the user
\* whose username is exactly the one given, when the password is right and the
\* user is active
authenticate(username, password) ==
    { pk \in UserPks :
        /\ accounts[pk].username = username
        /\ accounts[pk].password = password
        /\ accounts[pk].is_active }

\* CaseInsensitiveLoginForm.clean_username on the stripped field value
clean_username(username) == IF Truthy(username) THEN lower(username) ELSE username

\* CustomLoginView._redirect_by_role
redirect_by_role(user) ==
    IF user.role = "RA" THEN "redirect_ra_dashboard"
    ELSE IF user.role = "RO" THEN "redirect_ro_dashboard"
    ELSE IF user.role = "AD" THEN "redirect_choose_dashboard"
    ELSE "redirect_root"

\* CustomLoginView.post; rows of the response: the user logged in
login_result(typed, password) ==
    LET username == strip(typed)
        found == { pk \in UserPks : iexact(accounts[pk].username, username) }
        user == authenticate(clean_username(strip(typed)), password)
    IN  IF found = {}
        THEN AuthOutcome(accounts, sessions,
                         Response("login", NoUser, "POST", "no_account", {}))
        ELSE IF Cardinality(found) > 1
        \* User.objects.get raises MultipleObjectsReturned
        THEN AuthOutcome(accounts, sessions,
                         Response("login", NoUser, "POST", "error", {}))
        ELSE IF \E pk \in found : ~accounts[pk].is_active
        THEN AuthOutcome(accounts, sessions,
                         Response("login", NoUser, "POST", "not_approved", {}))
        ELSE IF user # {}
        THEN AuthOutcome(accounts, sessions \cup user,
                         Response("login", NoUser, "POST",
                                  redirect_by_role(accounts[CHOOSE pk \in user : TRUE]),
                                  user))
        ELSE AuthOutcome(accounts, sessions,
                         Response("login", NoUser, "POST", "invalid_login", {}))

-----------------------------------------------------------------------------
(* tracking/views.py: custom_lockout_view *)

\* rows of AccessAttempt a behaviour can hold
MaxAttempts == 2

\* the clock stops at MaxTicks
MaxTicks == 3602

\* now and attempt_time count ticks of half a second: total_seconds() has a
\* fraction, which int() cuts off
TicksPerSecond == 2

\* AXES_COOLOFF_TIME * 60 * 60, in seconds
lockout_period == 1800

\* the clock moves on by a second less than half the period, by half the
\* period or by a tick more
ClockSteps == {1799, 1800, 1801}

IpAddresses == {"ip1", "ip2"}

\* the usernames of failed logins: a registered one as stored and in another
\* case, and one that is not registered
AttemptUsernames == { <<"a">>, <<"A">>, <<"c">> }

\* credentials of the locked-out request: none, or a username as typed
LockoutCredentials == { None, <<>>, <<"a">>, <<" ", "a">>, <<"A">>, <<"c">> }

\* int(): the fraction of a number of half seconds is cut off towards zero
int_of_ticks(ticks) ==
    IF ticks >= 0 THEN ticks \div TicksPerSecond ELSE 0 - ((0 - ticks) \div TicksPerSecond)

max(a, b) == IF a >= b THEN a ELSE b

\* .order_by("attempt_time").first() of the rows of (username, ip_address)
first_attempt(rows) ==
    CHOOSE a \in rows : \A b \in rows : a.attempt_time <= b.attempt_time

\* a plausible slip: the newest attempt is taken
lockout_context_newest(credentials, ip_address) ==
    LET username == IF credentials = None THEN None ELSE strip(credentials)
        rows == { a \in attempts : a.username = username /\ a.ip_address = ip_address }
        attempt == CHOOSE a \in rows : \A b \in rows : a.attempt_time >= b.attempt_time
    IN  IF Truthy(username) /\ rows # {}
        THEN IF \E pk \in UserPks : iexact(accounts[pk].username, username)
             THEN [cool_off_seconds |->
                     max(int_of_ticks(lockout_period * TicksPerSecond
                                      - (now - attempt.attempt_time)), 0),
                   permanent_lock |-> FALSE, blocked_username |-> username,
                   ip_address |-> ip_address]
             ELSE [cool_off_seconds |-> 0, permanent_lock |-> TRUE,
                   blocked_username |-> username, ip_address |-> ip_address]
        ELSE [cool_off_seconds |-> 0, permanent_lock |-> FALSE,
              blocked_username |-> username, ip_address |-> ip_address]

\* custom_lockout_view: the context the page is rendered with
lockout_context(credentials, ip_address) ==
    LET username == IF credentials = None THEN None ELSE strip(credentials)
        user_exists == \E pk \in UserPks : iexact(accounts[pk].username, username)
        rows == { a \in attempts : a.username = username /\ a.ip_address = ip_address }
    IN  IF Truthy(username) /\ rows # {}
        THEN IF user_exists
             THEN [cool_off_seconds |->
                     max(int_of_ticks(lockout_period * TicksPerSecond
                                      - (now - first_attempt(rows).attempt_time)), 0),
                   permanent_lock |-> FALSE, blocked_username |-> username,
                   ip_address |-> ip_address]
             ELSE [cool_off_seconds |-> 0, permanent_lock |-> TRUE,
                   blocked_username |-> username, ip_address |-> ip_address]
        ELSE [cool_off_seconds |-> 0, permanent_lock |-> FALSE,
              blocked_username |-> username, ip_address |-> ip_address]

-----------------------------------------------------------------------------
(* The state machine *)

Init ==
    /\ today = 0
    /\ participants = <<>>
    /\ response = NoResponse
    /\ accounts = StaffAccounts
    /\ sessions = {}
    /\ attempts = {}
    /\ now = 0
    /\ screenings = <<>>

\* a request to register_participant
register_participant(user, method, form) ==
    LET out == register_participant_result(user, method, form) IN
    /\ Len(out.participants) <= MaxParticipants
    /\ participants' = out.participants
    /\ response' = out.response
    /\ UNCHANGED <<today, auth_vars, screenings>>

\* a request to update_participant
update_participant(user, pk, method, post) ==
    LET out == update_participant_result(user, pk, method, post) IN
    /\ participants' = out.participants
    /\ response' = out.response
    /\ UNCHANGED <<today, auth_vars, screenings>>

\* a request to mark_monitor_downloaded
mark_monitor_downloaded(user, pk, method) ==
    LET out == mark_monitor_downloaded_result(user, pk, method) IN
    /\ participants' = out.participants
    /\ response' = out.response
    /\ UNCHANGED <<today, auth_vars, screenings>>

\* a request to mark_ultrasound_downloaded
mark_ultrasound_downloaded(user, pk, method) ==
    LET out == mark_ultrasound_downloaded_result(user, pk, method) IN
    /\ participants' = out.participants
    /\ response' = out.response
    /\ UNCHANGED <<today, auth_vars, screenings>>

\* a request to download_completed_pdf
download_completed_pdf(user) ==
    LET out == download_completed_pdf_result(user) IN
    /\ participants' = out.participants
    /\ response' = out.response
    /\ UNCHANGED <<today, auth_vars, screenings>>

\* one run of the management command
handle ==
    /\ response' = [NoResponse EXCEPT !.view = "handle", !.status = handle_result.status,
                                      !.run = handle_result]
    /\ UNCHANGED <<today, participants, auth_vars, screenings>>

\* midnight: timezone.localdate() advances; no request is being answered
Tick ==
    /\ today < MaxDay
    /\ today' = today + 1
    /\ response' = NoResponse
    /\ UNCHANGED <<participants, auth_vars, screenings>>

\* a GET request carries no form: its body is the empty form
NoForm ==
    [study_no |-> 1, enrollment_date |-> 0, site |-> NoSite, wellformed |-> FALSE]

Next ==
    \/ \E user \in Users : register_participant(user, "GET", NoForm)
    \/ \E user \in Users, form \in RegisterForms : register_participant(user, "POST", form)
    \/ \E user \in Users, pk \in RequestPks : update_participant(user, pk, "GET", AllUnchecked)
    \/ \E user \in Users, pk \in RequestPks, post \in PostForms :
         update_participant(user, pk, "POST", post)
    \/ \E user \in Users, pk \in RequestPks, method \in Methods :
         mark_monitor_downloaded(user, pk, method)
    \/ \E user \in Users, pk \in RequestPks, method \in Methods :
         mark_ultrasound_downloaded(user, pk, method)
    \/ \E user \in Users : download_completed_pdf(user)
    \/ handle
    \/ Tick

Spec == Init /\ [][Next]_vars

-----------------------------------------------------------------------------
(* The read-only operations on every record that can be stored *)

\* what the twelve pairs of a stored record can hold: update_participant
\* writes a ticked or unticked box with no comment or a ticked box with a
\* stripped comment; the admin change form writes any box with any comment,
\* '' for a comment left blank.  One pair differs from the rest.
StoredComments == {None, <<>>, <<" ">>, <<"a">>}

StoredTrackings ==
    { [checkbox |-> [f \in Fields |-> IF f = g THEN c ELSE b],
       comment |-> [f \in Fields |-> IF f = g THEN m ELSE None]] :
        b \in BOOLEAN, g \in Fields, c \in BOOLEAN, m \in StoredComments }

\* enrollment dates of records registered before the calendar starts
StoredEnrollDates == {0 - 8, 0 - 6, 0 - 4, 0 - 3, 0}

StoredParticipants ==
    { save([NewParticipant(site, <<site, 1>>, e) EXCEPT
              !.checkbox = t.checkbox, !.comment = t.comment]) :
        site \in Sites, e \in StoredEnrollDates, t \in StoredTrackings }

InitStored ==
    /\ today \in 0..MaxDay
    /\ participants \in { <<p>> : p \in StoredParticipants }
    /\ response = NoResponse
    /\ accounts = StaffAccounts
    /\ sessions = {}
    /\ attempts = {}
    /\ now = 0
    /\ screenings = <<>>

\* a call of Participant.is_completed, as the admin list makes for each row
call_is_completed(pk) ==
    /\ response' = [NoResponse EXCEPT
                      !.view = "is_completed",
                      !.status = IF is_completed(participants[pk]) THEN "True" ELSE "False",
                      !.rows = {pk}]
    /\ UNCHANGED <<today, participants, auth_vars, screenings>>

\* a call of Participant.status_color, as the dashboards make for each row
call_status_color(pk) ==
    /\ response' = [NoResponse EXCEPT
                      !.view = "status_color",
                      !.status = status_color(participants[pk]),
                      !.rows = {pk}]
    /\ UNCHANGED <<today, participants, auth_vars, screenings>>

NextStored ==
    \/ \E pk \in Pks : call_is_completed(pk)
    \/ \E pk \in Pks : call_status_color(pk)
    \/ \E user \in Users : download_completed_pdf(user)
    \/ handle

SpecStored == InitStored /\ [][NextStored]_vars

-----------------------------------------------------------------------------
(* The accounts: signup, approval and login *)

\* a request to signup
signup(method, form, rejects_case_variants) ==
    LET out == signup_result(method, form, rejects_case_variants) IN
    /\ Len(out.accounts) <= Len(StaffAccounts) + MaxSignups
    /\ accounts' = out.accounts
    /\ sessions' = out.sessions
    /\ response' = out.response
    /\ UNCHANGED <<today, participants, attempts, now, screenings>>

\* a request to approve_user
approve_user(requester, user_id) ==
    LET out == approve_user_result(requester, user_id) IN
    /\ accounts' = out.accounts
    /\ sessions' = out.sessions
    /\ response' = out.response
    /\ UNCHANGED <<today, participants, attempts, now, screenings>>

\* a request to reject_user
reject_user(requester, user_id) ==
    LET out == reject_user_result(requester, user_id) IN
    /\ accounts' = out.accounts
    /\ sessions' = out.sessions
    /\ response' = out.response
    /\ UNCHANGED <<today, participants, attempts, now, screenings>>

\* a POST to the login view by a client that has no session
login(typed, password) ==
    LET out == login_result(typed, password) IN
    /\ accounts' = out.accounts
    /\ sessions' = out.sessions
    /\ response' = out.response
    /\ UNCHANGED <<today, participants, attempts, now, screenings>>

\* the signup form as a GET request shows it
NoSignupForm ==
    [username |-> <<>>, email |-> "", role |-> "", site |-> NoSite, wellformed |-> FALSE]

NextAuth ==
    \/ signup("GET", NoSignupForm, FALSE)
    \/ \E form \in SignupForms, rejects_case_variants \in BOOLEAN :
         signup("POST", form, rejects_case_variants)
    \/ \E typed \in LoginUsernames, password \in LoginPasswords : login(typed, password)
    \/ \E requester \in RequestUserIds, user_id \in RequestUserIds :
         approve_user(requester, user_id)
    \/ \E requester \in RequestUserIds, user_id \in RequestUserIds :
         reject_user(requester, user_id)

SpecAuth == Init /\ [][NextAuth]_vars

-----------------------------------------------------------------------------
(* The lockout page *)

\* django-axes records a failed login: a row of AccessAttempt
access_attempt(username, ip_address) ==
    /\ Cardinality(attempts) < MaxAttempts
    /\ attempts' = attempts \cup
         {[username |-> username, ip_address |-> ip_address, attempt_time |-> now]}
    /\ response' = NoResponse
    /\ UNCHANGED <<today, participants, accounts, sessions, now, screenings>>

\* time passes
clock(step) ==
    /\ now + step <= MaxTicks
    /\ now' = now + step
    /\ response' = NoResponse
    /\ UNCHANGED <<today, participants, accounts, sessions, attempts, screenings>>

\* django-axes answers a locked-out request with custom_lockout_view; rows of
\* the response: the context of the page
custom_lockout_view(credentials, ip_address) ==
    /\ response' = [NoResponse EXCEPT !.view = "custom_lockout_view",
                                      !.status = "account_locked",
                                      !.rows = {lockout_context(credentials, ip_address)}]
    /\ UNCHANGED <<today, participants, auth_vars, screenings>>

NextLockout ==
    \/ \E username \in AttemptUsernames, ip_address \in IpAddresses :
         access_attempt(username, ip_address)
    \/ \E step \in ClockSteps : clock(step)
    \/ \E credentials \in LockoutCredentials, ip_address \in IpAddresses :
         custom_lockout_view(credentials, ip_address)

SpecLockout == Init /\ [][NextLockout]_vars

-----------------------------------------------------------------------------
(* update_participant on every pair of the detail form *)

\* the POST data in which one pair differs from the rest: its checkbox sent or
\* not, its comment any of CommentInputs, on a form with nothing else sent;
\* and the form with every box ticked
PairPostForms ==
    { [checkbox |-> [f \in Fields |-> IF f = g THEN c ELSE None],
       comment |-> [f \in Fields |-> IF f = g THEN m ELSE None]] :
        g \in Fields, c \in CheckboxInputs, m \in CommentInputs }
    \cup {AllChecked}

\* the records stored before the request: a fresh one of either site, and one
\* with every box ticked and a comment on the monitor data
InitUpdate ==
    /\ today = 0
    /\ participants \in
         { <<save(NewParticipant(site, <<site, 1>>, 0))>> : site \in Sites }
         \cup { <<save([NewParticipant(site, <<site, 1>>, 0) EXCEPT
                         !.checkbox = [f \in Fields |-> TRUE],
                         !.comment["monitor_downloaded"] = <<"a">>])>> : site \in Sites }
    /\ response = NoResponse
    /\ accounts = StaffAccounts
    /\ sessions = {}
    /\ attempts = {}
    /\ now = 0
    /\ screenings = <<>>

NextUpdate ==
    \/ \E user \in Users, pk \in RequestPks : update_participant(user, pk, "GET", AllUnchecked)
    \/ \E user \in Users, pk \in RequestPks, post \in PairPostForms :
         update_participant(user, pk, "POST", post)

SpecUpdate == InitUpdate /\ [][NextUpdate]_vars

-----------------------------------------------------------------------------
(* The dashboards on stored tables *)

\* rows of a table listed on a dashboard
MaxListed == 2

\* what the pairs of a listed record hold: nothing ticked, the ten tracked
\* boxes ticked, everything but the monitor data
ListedTrackings ==
    { [f \in Fields |-> FALSE],
      [f \in Fields |-> f \in completed_items],
      [f \in Fields |-> f # "monitor_downloaded"] }

ListedParticipants ==
    { save([NewParticipant(site, <<site, 1>>, e) EXCEPT !.checkbox = t]) :
        site \in Sites, e \in {0 - 8, 0}, t \in ListedTrackings }

\* records with every box ticked but one, for each box
SingleParticipants ==
    { save([NewParticipant(site, <<site, 1>>, 0) EXCEPT
              !.checkbox = [f \in Fields |-> f # g]]) :
        site \in Sites, g \in Fields }

\* the tables of at most n rows of ListedParticipants
RECURSIVE Tables(_)
Tables(n) ==
    IF n = 0 THEN {<<>>}
    ELSE Tables(n - 1)
           \cup { Append(t, p) : t \in { x \in Tables(n - 1) : Len(x) = n - 1 },
                                 p \in ListedParticipants }

InitListed ==
    /\ today = 0
    /\ participants \in Tables(MaxListed) \cup { <<p>> : p \in SingleParticipants }
    /\ response = NoResponse
    /\ accounts = StaffAccounts
    /\ sessions = {}
    /\ attempts = {}
    /\ now = 0
    /\ screenings = <<>>

\* a request to choose_dashboard
choose_dashboard(user) ==
    /\ response' = choose_dashboard_result(user).response
    /\ UNCHANGED <<today, participants, auth_vars, screenings>>

\* a request to ra_dashboard
ra_dashboard(user) ==
    /\ response' = ra_dashboard_result(user).response
    /\ UNCHANGED <<today, participants, auth_vars, screenings>>

\* a request to ro_dashboard
ro_dashboard(user) ==
    /\ response' = ro_dashboard_result(user).response
    /\ UNCHANGED <<today, participants, auth_vars, screenings>>

\* a request to participant_detail
participant_detail(user, pk) ==
    /\ response' = participant_detail_result(user, pk).response
    /\ UNCHANGED <<today, participants, auth_vars, screenings>>

NextListed ==
    \/ \E user \in Users : choose_dashboard(user)
    \/ \E user \in Users : ra_dashboard(user)
    \/ \E user \in Users : ro_dashboard(user)
    \/ \E user \in Users, pk \in 1..(Len(participants) + 1) : participant_detail(user, pk)
    \/ \E user \in Users : download_completed_pdf(user)

SpecListed == InitListed /\ [][NextListed]_vars

-----------------------------------------------------------------------------
(* tracking/views.py: screening_view; tracking/models.py: ScreeningSession *)

\* sessions that can be stored in one behaviour
MaxScreenings == 1

\* The accounts that send the screening form: the accounts above, a Research
\* Assistant left without a site (CustomUser.site is nullable, SET_NULL when
\* the site is deleted) and a superuser who is also a Research Officer.
ScreeningUsers ==
    Users \cup
    { [name |-> "ra0", role |-> "RA", site |-> NoSite, is_superuser |-> FALSE, is_active |-> TRUE],
      [name |-> "rosu", role |-> "RO", site |-> "S1", is_superuser |-> TRUE, is_active |-> TRUE] }

\* the Site table: the row with primary key i is SiteTable[i]
SiteTable == <<"S1", "S2">>

DigitChars == <<"0", "1", "2", "3", "4", "5", "6", "7", "8", "9">>

IsDigit(c) == \E i \in DOMAIN DigitChars : DigitChars[i] = c

digit(c) == (CHOOSE i \in DOMAIN DigitChars : DigitChars[i] = c) - 1

IsDigits(s) == s # <<>> /\ \A i \in DOMAIN s : IsDigit(s[i])

RECURSIVE digits_value(_)
digits_value(s) ==
    IF s = <<>> THEN 0
    ELSE 10 * digits_value(SubSeq(s, 1, Len(s) - 1)) + digit(s[Len(s)])

\* int(text): surrounding blanks and one sign are accepted; ok is FALSE where
\* Python raises ValueError
int(s) ==
    LET t == strip(s)
        signed == t # <<>> /\ Head(t) \in {"-", "+"}
        body == IF signed THEN Tail(t) ELSE t
    IN  IF ~IsDigits(body) THEN [ok |-> FALSE, value |-> 0]
        ELSE [ok |-> TRUE,
              value |-> IF Head(t) = "-" THEN 0 - digits_value(body)
                        ELSE digits_value(body)]

\* int(request.POST.get(key, 0)): an absent key gives int(0)
int_or_zero(v) == IF v = None THEN [ok |-> TRUE, value |-> 0] ELSE int(v)

\* The text of a date: <<"d", c>> stands for the ISO text of day digit(c),
\* any other text is not of the form %Y-%m-%d.
\* datetime.strptime(text, "%Y-%m-%d").date(); ok is FALSE on ValueError
strptime(s) ==
    IF Len(s) = 2 /\ s[1] = "d" /\ IsDigit(s[2])
    THEN [ok |-> TRUE, value |-> digit(s[2])]
    ELSE [ok |-> FALSE, value |-> 0]

\* the texts typed in a count box: absent, empty, whole numbers, a negative
\* number, a decimal
CountInputs ==
    {None, <<>>, <<"0">>, <<"2">>, <<"-", "1">>, <<"1", ".", "5">>}

\* the texts of the date box: absent, empty, a date, not a date
DateInputs == {None, <<>>, <<"d", "0">>, <<"x">>}

\* the texts of the site selector: absent, empty, the ids of the two sites,
\* an id of no site, not a number
SiteIdInputs == {None, <<>>, <<"1">>, <<"2">>, <<"9">>, <<"x">>}

\* the form as it is usually sent: two screened, none eligible, no date, the
\* first site
FilledScreeningPost ==
    [number_screened |-> <<"2">>, eligible |-> <<"0">>, screening_date |-> None,
     site_id |-> <<"1">>]

\* request.POST of the screening form: the usual form with any two of its
\* boxes changed
ScreeningPosts ==
    { post \in [number_screened : CountInputs, eligible : CountInputs,
                screening_date : DateInputs, site_id : SiteIdInputs] :
        Cardinality({ box \in DOMAIN post : post[box] # FilledScreeningPost[box] }) <= 2 }

NoScreeningPost ==
    [number_screened |-> None, eligible |-> None, screening_date |-> None,
     site_id |-> None]

ScreeningOutcome(table, resp) == [screenings |-> table, response |-> resp]

\* Site.objects.get(id=site_id): found, DoesNotExist, or ValueError for an id
\* that is not a number
Site_objects_get(site_id) ==
    LET id == int(site_id) IN
    IF ~id.ok THEN [status |-> "ValueError", site |-> NoSite]
    ELSE IF id.value \in DOMAIN SiteTable
         THEN [status |-> "found", site |-> SiteTable[id.value]]
         ELSE [status |-> "DoesNotExist", site |-> NoSite]

\* ScreeningSession.objects.create: site is a non-null foreign key and the
\* two counts are PositiveIntegerFields, so the database refuses the row
\* (IntegrityError) when the site is None or a count is negative
ScreeningSession_create(user, site, number_screened, number_eligible, date) ==
    IF site = NoSite \/ number_screened < 0 \/ number_eligible < 0
    THEN [ok |-> FALSE, table |-> screenings]
    ELSE [ok |-> TRUE,
          table |-> Append(screenings,
                           [ra |-> user.name, site |-> site, date |-> date,
                            number_screened |-> number_screened,
                            number_eligible |-> number_eligible])]

\* the redirect back to the form with messages.error(message)
screening_error(user, method, message) ==
    ScreeningOutcome(screenings,
                     Response("screening_view", user, method, "redirect_screening", {message}))

\* screening_view, from the site onwards: the counts and the date are parsed
screening_save(user, number_screened, number_eligible, screening_date, site_id) ==
    LET own == user.role \in {"RA", "RO"} /\ user.site # NoSite
        selects == ~own /\ (user.is_superuser \/ user.role = "AD")
        got == IF selects /\ Truthy(site_id) THEN Site_objects_get(site_id)
               ELSE [status |-> "not_asked", site |-> NoSite]
        site == IF own THEN user.site ELSE got.site
        created == ScreeningSession_create(user, site, number_screened,
                                           number_eligible, screening_date)
    IN  IF selects /\ ~Truthy(site_id)
        THEN screening_error(user, "POST", "No site found. Please select a site.")
        ELSE IF got.status = "DoesNotExist"
        THEN screening_error(user, "POST", "Invalid site selected.")
        ELSE IF got.status = "ValueError"
        THEN ScreeningOutcome(screenings,
                 Response("screening_view", user, "POST", "ValueError", {}))
        ELSE IF ~created.ok
        THEN ScreeningOutcome(screenings,
                 Response("screening_view", user, "POST", "IntegrityError", {}))
        ELSE ScreeningOutcome(created.table,
                 Response("screening_view", user, "POST",
                          IF number_eligible > 0 THEN "redirect_register_participant"
                          ELSE IF user.role = "RA" THEN "redirect_ra_dashboard"
                          ELSE IF user.role = "RO" THEN "redirect_ro_dashboard"
                          ELSE "redirect_choose_dashboard", {}))

\* screening_view
screening_view_result(user, method, post) ==
    LET number_screened == int_or_zero(post.number_screened)
        number_eligible == int_or_zero(post.eligible)
        parsed == IF Truthy(post.screening_date) THEN strptime(post.screening_date)
                  ELSE [ok |-> TRUE, value |-> today]
    IN  IF method # "POST"
        THEN ScreeningOutcome(screenings,
                 Response("screening_view", user, method, "screening_form",
                          IF user.is_superuser \/ user.role = "AD"
                          THEN {SiteTable[i] : i \in DOMAIN SiteTable} ELSE {}))
        ELSE IF ~number_screened.ok \/ ~number_eligible.ok
        THEN screening_error(user, method, "Please enter valid whole numbers.")
        ELSE IF ~parsed.ok
        THEN screening_error(user, method, "Invalid date format.")
        ELSE screening_save(user, number_screened.value, number_eligible.value,
                            parsed.value, post.site_id)

\* a request to screening_view
screening_view(user, method, post) ==
    LET out == screening_view_result(user, method, post) IN
    /\ Len(out.screenings) <= MaxScreenings
    /\ screenings' = out.screenings
    /\ response' = out.response
    /\ UNCHANGED <<today, participants, auth_vars>>

NextScreening ==
    \/ \E user \in ScreeningUsers : screening_view(user, "GET", NoScreeningPost)
    \/ \E user \in ScreeningUsers, post \in ScreeningPosts :
         screening_view(user, "POST", post)
    \/ Tick

SpecScreening == Init /\ [][NextScreening]_vars

-----------------------------------------------------------------------------
(* preterm_baby_tracker/settings.py: CRONJOBS; tracking/management/commands *)

\* CRONJOBS: the schedule, the function cron calls and its arguments
CRONJOBS ==
    << [schedule |-> "0 9 * * *",
        function |-> "django.core.management.call_command",
        args |-> <<"send_reminders">>] >>

\* the management commands of the project: a command is named after its
\* module in tracking/management/commands
management_commands == {"send_ro_reminders"}

\* the names a command is called by, from the shell or from cron
CommandNames == management_commands \cup {CRONJOBS[i].args[1] : i \in DOMAIN CRONJOBS}

\* django.core.management.call_command(name): Command.handle of the command
\* of that name, CommandError("Unknown command") when there is none
call_command_result(name) ==
    IF name \in management_commands
    THEN [NoResponse EXCEPT !.status = handle_result.status, !.run = handle_result]
    ELSE [NoResponse EXCEPT !.status = "CommandError"]

\* python manage.py <name>
call_command(name) ==
    /\ response' = [call_command_result(name) EXCEPT !.view = "call_command", !.rows = {name}]
    /\ UNCHANGED <<today, participants, auth_vars, screenings>>

\* 09:00: cron runs the job, job.function(*job.args)
crontab_run(job) ==
    /\ job.function = "django.core.management.call_command"
    /\ response' = [call_command_result(job.args[1]) EXCEPT
                      !.view = "crontab_run", !.rows = {job.schedule}]
    /\ UNCHANGED <<today, participants, auth_vars, screenings>>

NextCron ==
    \/ \E name \in CommandNames : call_command(name)
    \/ \E i \in DOMAIN CRONJOBS : crontab_run(CRONJOBS[i])

SpecCron == InitStored /\ [][NextCron]_vars

-----------------------------------------------------------------------------
(* Properties *)

\* an item is complete: its checkbox is True or its comment is non-empty
\* (neither None nor '')
ItemComplete(p, f) == p.checkbox[f] \/ (p.comment[f] # None /\ p.comment[f] # <<>>)

\* the pks of a group of reminders
GroupPks(group) == { group[i].pk : i \in 1..Len(group) }

\* C1: after any sequence of register_participant, update_participant,
\* mark_monitor_downloaded and mark_ultrasound_downloaded requests, every
\* stored participant has due_date = enrollment_date + 7 days.
C1_DueDateIsEnrollmentPlusSeven ==
    \A pk \in Pks : participants[pk].due_date = participants[pk].enrollment_date + 7

\* a participant that was registered, marked by both quick actions and updated
\* with a comment
C1_Witness ==
    \E pk \in Pks :
        /\ participants[pk].monitor_downloaded_by # NoUser
        /\ participants[pk].ultrasound_downloaded_by # NoUser
        /\ participants[pk].comment["monitor_downloaded"] # None
        /\ participants[pk].due_date = participants[pk].enrollment_date + 7

\* C2: is_completed() returns True exactly when every required item is
\* complete (checkbox True or comment non-empty), and so False as soon as one
\* required item has a False checkbox and an empty comment.
C2_IsCompletedIffAllRequiredComplete ==
    /\ \A pk \in Pks :
         is_completed(participants[pk])
           <=> \A f \in Range(required_items) : ItemComplete(participants[pk], f)
    /\ response.view = "is_completed" =>
         \A pk \in response.rows :
            (response.status = "True")
              <=> \A f \in Range(required_items) : ItemComplete(participants[pk], f)

\* is_completed() answered True for a record with a required checkbox that is
\* False and commented
C2_Witness ==
    /\ response.view = "is_completed"
    /\ response.status = "True"
    /\ \E pk \in response.rows, f \in Range(required_items) :
         ~participants[pk].checkbox[f] /\ participants[pk].comment[f] = <<"a">>

\* C3: status_color() returns 'overdue' if and only if today is strictly
\* after due_date, and the reminder command puts a participant in the overdue
\* group only under that condition.
C3_OverdueIffDueDatePassed ==
    /\ \A pk \in Pks :
         /\ status_color(participants[pk]) = "overdue" <=> today > participants[pk].due_date
         /\ reminder_group(days_remaining(participants[pk])) = "overdue"
              => today > participants[pk].due_date
    /\ response.view = "status_color" =>
         \A pk \in response.rows :
            (response.status = "overdue") <=> today > participants[pk].due_date
    /\ response.view = "handle" =>
         \A pk \in GroupPks(response.run.overdue) : today > participants[pk].due_date

\* status_color() answered 'overdue' the day after the due date
C3_Witness ==
    /\ response.view = "status_color"
    /\ response.status = "overdue"
    /\ \E pk \in response.rows : today = participants[pk].due_date + 1

\* C4: after a run of the reminder command, a participant with a missing item
\* is in the due group iff days_remaining is 0, 1 or 2, in the overdue group
\* iff days_remaining < 0, and never in both.
C4_GroupedByUrgency ==
    response.view = "handle" =>
      \A pk \in Pks :
         missing_items(participants[pk]) # <<>> =>
           /\ pk \in GroupPks(response.run.due)
                <=> days_remaining(participants[pk]) \in {0, 1, 2}
           /\ pk \in GroupPks(response.run.overdue)
                <=> days_remaining(participants[pk]) < 0
           /\ ~(pk \in GroupPks(response.run.due) /\ pk \in GroupPks(response.run.overdue))

\* C5: every run of the reminder command runs to completion and reports
\* success; it never aborts while iterating over the participants.
C5_CommandRunsToCompletion ==
    response.view = "handle" => response.status = "success"

\* C6: a participant whose every tracked item is complete is skipped by the
\* reminder command: no row in any mail, no NotificationLog entry.
C6_CompleteParticipantIsSkipped ==
    response.view = "handle" =>
      \A pk \in Pks :
         (\A f \in Fields : ItemComplete(participants[pk], f)) =>
           /\ pk \in response.run.skipped
           /\ \A m \in response.run.mails : pk \notin m.pks
           /\ \A l \in response.run.logs : l.participant # pk

\* C7: after a run of the reminder command, for every participant that is due
\* within two days or overdue and misses a critical item, every active
\* superuser who is the PI (role AD) was sent a 'Critical Pending Items' mail
\* for that participant.
C7_PiGetsCriticalAlert ==
    response.view = "handle" =>
      \A pk \in Pks, u \in Users :
         ( /\ days_remaining(participants[pk]) <= 2
           /\ \/ ~ItemComplete(participants[pk], "ultrasound_downloaded")
              \/ ~ItemComplete(participants[pk], "blood_culture_done")
           /\ u.is_superuser /\ u.is_active /\ u.role = "AD" )
         => [kind |-> "critical", to |-> u.name, pks |-> {pk}] \in response.run.mails

\* C8 as stated: every request of an RA who is no superuser to
\* update_participant, mark_monitor_downloaded or mark_ultrasound_downloaded
\* renders the forbidden page and leaves the participant unchanged.
C8_RaAlwaysGetsForbiddenPage ==
    \A u \in Users :
       (u.role = "RA" /\ ~u.is_superuser) =>
         \A pk \in Pks, method \in Methods :
            /\ \A post \in PostForms :
                 /\ update_participant_result(u, pk, method, post).response.status = "forbidden"
                 /\ update_participant_result(u, pk, method, post).participants = participants
            /\ mark_monitor_downloaded_result(u, pk, method).response.status = "forbidden"
            /\ mark_monitor_downloaded_result(u, pk, method).participants = participants
            /\ mark_ultrasound_downloaded_result(u, pk, method).response.status = "forbidden"
            /\ mark_ultrasound_downloaded_result(u, pk, method).participants = participants

\* C8 as amended: a request of an RA who is no superuser renders the forbidden
\* page on update_participant (any method) and on a POST to either mark view;
\* a request of another method to a mark view is answered with the redirect to
\* the RO dashboard; in every case the stored participants are unchanged.
C8_RaCannotConfirmReceipt ==
    \A u \in Users :
       (u.role = "RA" /\ ~u.is_superuser) =>
         \A pk \in Pks, method \in Methods :
            /\ \A post \in PostForms :
                 /\ update_participant_result(u, pk, method, post).response.status = "forbidden"
                 /\ update_participant_result(u, pk, method, post).participants = participants
            /\ mark_monitor_downloaded_result(u, pk, method).response.status
                 = IF method = "POST" THEN "forbidden" ELSE "redirect_ro_dashboard"
            /\ mark_monitor_downloaded_result(u, pk, method).participants = participants
            /\ mark_ultrasound_downloaded_result(u, pk, method).response.status
                 = IF method = "POST" THEN "forbidden" ELSE "redirect_ro_dashboard"
            /\ mark_ultrasound_downloaded_result(u, pk, method).participants = participants

\* update_participant has just refused a request (only an RA is refused by
\* its role check) on a table whose participant was confirmed by others
C8_Witness ==
    /\ response.view = "update_participant"
    /\ response.status = "forbidden"
    /\ \E pk \in Pks :
         /\ participants[pk].monitor_downloaded_by # NoUser
         /\ participants[pk].checkbox["ultrasound_downloaded"]

\* C9: a register_participant request of a user who is no superuser and whose
\* role is neither RA nor AD renders the forbidden page and creates no
\* participant, whatever the method and the form data.
C9_OnlyRaAdSuperuserRegister ==
    \A u \in Users :
       (~u.is_superuser /\ u.role \notin {"RA", "AD"}) =>
         \A method \in Methods, form \in RegisterForms :
            /\ register_participant_result(u, method, form).response.status = "forbidden"
            /\ register_participant_result(u, method, form).participants = participants

\* register_participant has just refused a request, with an RO among the
\* users and room left in the table
C9_Witness ==
    /\ response.view = "register_participant"
    /\ response.status = "forbidden"
    /\ Len(participants) < MaxParticipants
    /\ \E u \in Users : u.role = "RO" /\ ~u.is_superuser

\* C10: every row of the PDF of download_completed_pdf is a participant for
\* which is_completed() holds, and only a user with role AD or a superuser
\* gets the PDF.
C10_PdfListsOnlyCompleted ==
    /\ response.view = "download_completed_pdf" =>
         \A pk \in response.rows : is_completed(participants[pk])
    /\ \A u \in Users :
         download_completed_pdf_result(u).response.status = "pdf"
           => (u.role = "AD" \/ u.is_superuser)

C12_LoginIsCaseInsensitive ==
    \A pk \in UserPks, typed \in LoginUsernames :
       ( /\ accounts[pk].is_active
         /\ lower(typed) = lower(accounts[pk].username)
         /\ \A other \in UserPks :
              iexact(accounts[other].username, accounts[pk].username) => other = pk )
       => /\ pk \in login_result(typed, accounts[pk].password).sessions
          /\ login_result(typed, accounts[pk].password).response.rows = {pk}

\* the seconds since the oldest attempt of (username, ip_address), a started
\* second counted as a whole one
SecondsSinceOldest(username, ip_address) ==
    LET times == { a.attempt_time : a \in { x \in attempts :
                      x.username = username /\ x.ip_address = ip_address } }
        oldest == CHOOSE t \in times : \A u \in times : t <= u
    IN  (now - oldest + 1) \div 2

IsStripped(text, submitted) ==
    \E i \in 1..(Len(submitted) + 1), j \in 0..Len(submitted) :
       /\ text = SubSeq(submitted, i, j)
       /\ \A k \in 1..Len(submitted) : (k < i \/ k > j) => submitted[k] = " "
       /\ text # <<>> => (text[1] # " " /\ text[Len(text)] # " ")

\* C14: after a POST to update_participant by a permitted user (RO, AD or
\* superuser), for each of the 12 pairs the stored comment is the stripped
\* submitted comment, or None when that is blank, and the stored checkbox is
\* True exactly when the checkbox was submitted or the stripped comment is
\* non-empty, so that a stored comment implies a True checkbox; a request of
\* another method changes nothing.
C14_UpdateStoresEachPair ==
    \A u \in Users, pk \in Pks :
       (u.role \in {"RO", "AD"} \/ u.is_superuser) =>
         /\ update_participant_result(u, pk, "GET", AllUnchecked).participants = participants
         /\ \A post \in PairPostForms, f \in Fields :
              LET after == update_participant_result(u, pk, "POST", post).participants[pk]
                  blank == post.comment[f] = None \/ IsStripped(<<>>, post.comment[f])
              IN  /\ blank => after.comment[f] = None
                  /\ ~blank => IsStripped(after.comment[f], post.comment[f])
                  /\ after.checkbox[f] <=> (post.checkbox[f] # None \/ ~blank)
                  /\ (after.comment[f] # None /\ after.comment[f] # <<>>) => after.checkbox[f]

\* update_participant has stored a comment that was sent with spaces around it
\* and no tick: the comment is stripped and the box is True, next to a pair
\* that was sent empty
C14_Witness ==
    /\ response.view = "update_participant"
    /\ response.status = "redirect_ro_dashboard"
    /\ \E pk \in Pks :
         /\ participants[pk].comment["blood_culture_done"] = <<"a">>
         /\ participants[pk].checkbox["blood_culture_done"]
         /\ ~participants[pk].checkbox["monitor_downloaded"]
         /\ participants[pk].comment["monitor_downloaded"] = None

\* table is the stored table but for participant pk, on which box is True, the
\* time and the user are recorded in the fields at and by, and nothing else
\* differs
MarkedOnly(table, pk, box, user) ==
    /\ Len(table) = Len(participants)
    /\ \A other \in Pks \ {pk} : table[other] = participants[other]
    /\ table[pk].checkbox[box]
    /\ table[pk][box \o "_at"] = today
    /\ table[pk][box \o "_by"] = user.name
    /\ \A f \in Fields \ {box} : table[pk].checkbox[f] = participants[pk].checkbox[f]
    /\ table[pk].comment = participants[pk].comment
    /\ \A a \in (DOMAIN participants[pk])
                  \ {"checkbox", "comment", box \o "_at", box \o "_by"} :
         table[pk][a] = participants[pk][a]

\* C15: a POST to mark_monitor_downloaded (mark_ultrasound_downloaded) by a
\* superuser, or by a user of the participant's site with role RO or AD, sets
\* the flag, records the time and the user in the _at and _by fields and
\* changes nothing else; a POST by any other user, and a request of another
\* method by any user, changes nothing.
C15_MarkSetsOnlyItsFields ==
    \A u \in Users, pk \in Pks :
       LET permitted ==
             u.is_superuser \/ (participants[pk].site = u.site /\ u.role \in {"RO", "AD"})
       IN  /\ mark_monitor_downloaded_result(u, pk, "GET").participants = participants
           /\ mark_ultrasound_downloaded_result(u, pk, "GET").participants = participants
           /\ ~permitted =>
                /\ mark_monitor_downloaded_result(u, pk, "POST").participants = participants
                /\ mark_ultrasound_downloaded_result(u, pk, "POST").participants
                     = participants
           /\ permitted =>
                /\ MarkedOnly(mark_monitor_downloaded_result(u, pk, "POST").participants,
                              pk, "monitor_downloaded", u)
                /\ MarkedOnly(mark_ultrasound_downloaded_result(u, pk, "POST").participants,
                              pk, "ultrasound_downloaded", u)

\* the RO has confirmed the monitor data of a participant on the second day,
\* and nothing else of it is confirmed
C15_Witness ==
    /\ response.view = "mark_monitor_downloaded"
    /\ response.status = "redirect_ro_dashboard"
    /\ today = 1
    /\ \E pk \in Pks :
         /\ participants[pk].monitor_downloaded_by = "ro1"
         /\ participants[pk].monitor_downloaded_at = 1
         /\ participants[pk].checkbox["monitor_downloaded"]
         /\ ~participants[pk].checkbox["ultrasound_downloaded"]
         /\ participants[pk].ultrasound_downloaded_by = NoUser

\* C16: a user who is no superuser never modifies a participant of another
\* site than the user's own, through update_participant,
\* mark_monitor_downloaded or mark_ultrasound_downloaded.
C16_NoWriteAcrossSites ==
    \A u \in Users, pk \in Pks :
       (~u.is_superuser /\ participants[pk].site # u.site) =>
         \A method \in Methods :
            /\ \A post \in PostForms :
                 update_participant_result(u, pk, method, post).participants = participants
            /\ mark_monitor_downloaded_result(u, pk, method).participants = participants
            /\ mark_ultrasound_downloaded_result(u, pk, method).participants = participants

\* the ten checkboxes the dashboards track
TenTracked == Fields \ {"admission_notes_24hr_uploaded", "vital_sign_monitoring_done"}

\* the participants a user may see
VisibleTo(u) == IF u.is_superuser THEN Pks ELSE { pk \in Pks : participants[pk].site = u.site }

\* C17: the queryset of a user is every participant for a superuser and the
\* participants of the user's own site otherwise; choose_dashboard shows
\* exactly these, ra_dashboard, ro_dashboard and the PDF export show none
\* besides these, and participant_detail renders the forbidden page for a
\* participant of another site requested by a user who is no superuser.
C17_ReadsStayInsideTheSite ==
    \A u \in Users :
       /\ Range(queryset(u)) = VisibleTo(u)
       /\ choose_dashboard_result(u).response.status = "choose_dashboard"
            => choose_dashboard_result(u).response.rows = VisibleTo(u)
       /\ ra_dashboard_result(u).response.rows \subseteq VisibleTo(u)
       /\ ro_dashboard_result(u).response.rows \subseteq VisibleTo(u)
       /\ download_completed_pdf_result(u).response.rows \subseteq VisibleTo(u)
       /\ \A pk \in Pks :
            IF pk \in VisibleTo(u)
            THEN participant_detail_result(u, pk).response.rows = {pk}
            ELSE /\ participant_detail_result(u, pk).response.status = "forbidden"
                 /\ participant_detail_result(u, pk).response.rows = {}

\* choose_dashboard has shown a user a part of a table that holds participants
\* of both sites
C17_Witness ==
    /\ response.view = "choose_dashboard"
    /\ response.status = "choose_dashboard"
    /\ response.rows # {}
    /\ \E pk \in Pks \ response.rows, shown \in response.rows :
         participants[pk].site # participants[shown].site

\* C18: pending_participants and completed_participants partition the list
\* they are given: each participant is in exactly one of the two results, once,
\* and it is in the pending result, with a non-empty missing list, exactly
\* when at least one of the ten tracked checkboxes is False.
C18_PendingAndCompletedPartition ==
    \A u \in Users :
       LET given == queryset(u)
           pending == pending_participants(given)
           completed == completed_participants(given)
       IN  /\ \A i \in 1..Len(pending) : Contains(given, pending[i].participant)
           /\ \A i \in 1..Len(completed) : Contains(given, completed[i])
           /\ \A pk \in Range(given) :
                LET in_pending == { i \in 1..Len(pending) : pending[i].participant = pk }
                    in_completed == { i \in 1..Len(completed) : completed[i] = pk }
                    unticked == { f \in TenTracked : ~participants[pk].checkbox[f] }
                IN  /\ Cardinality(in_pending) + Cardinality(in_completed) = 1
                    /\ in_pending # {} <=> unticked # {}
                    /\ \A i \in in_pending :
                         /\ pending[i].missing # <<>>
                         /\ Len(pending[i].missing) = Cardinality(unticked)

\* choose_dashboard has shown a table with a participant whose ten tracked
\* boxes are ticked (and a box that is not tracked is not) and a participant
\* with a tracked box left
C18_Witness ==
    /\ response.view = "choose_dashboard"
    /\ \E done \in response.rows, open \in response.rows :
         /\ \A f \in TenTracked : participants[done].checkbox[f]
         /\ ~participants[done].checkbox["vital_sign_monitoring_done"]
         /\ \E f \in TenTracked : ~participants[open].checkbox[f]

\* C19: for a user with role RO or AD or a superuser, ro_dashboard lists
\* exactly the participants visible to the user that are not completed (some
\* tracked checkbox is False), each once, in ascending order of
\* days_remaining; any other user gets the forbidden page.
C19_RoDashboardMostUrgentFirst ==
    \A u \in Users :
       IF u.role \in {"RO", "AD"} \/ u.is_superuser
       THEN LET list == ro_dashboard_list(u)
                expected == { pk \in VisibleTo(u) :
                                \E f \in TenTracked : ~participants[pk].checkbox[f] }
            IN  /\ ro_dashboard_result(u).response.status = "ro_dashboard"
                /\ ro_dashboard_result(u).response.rows = expected
                /\ Range(list) = expected
                /\ Len(list) = Cardinality(expected)
                /\ \A i, j \in 1..Len(list) :
                     i < j => participants[list[i]].due_date - today
                                <= participants[list[j]].due_date - today
       ELSE /\ ro_dashboard_result(u).response.status = "forbidden"
            /\ ro_dashboard_result(u).response.rows = {}

\* ro_dashboard has listed two participants, the later one of the table being
\* the more urgent, while the table holds a completed participant or one of
\* another site that is not listed
C19_Witness ==
    /\ response.view = "ro_dashboard"
    /\ response.status = "ro_dashboard"
    /\ \E first \in response.rows, second \in response.rows :
         /\ first < second
         /\ participants[second].due_date < participants[first].due_date

\* C20: status_color is 'green' for days_remaining >= 4, 'yellow' for 2..3,
\* 'red' for 0..1 and 'overdue' below 0, one of the four for every value; and
\* days_remaining is due_date - today, which is enrollment_date + 7 - today.
C20_StatusColorCases ==
    /\ \A pk \in Pks :
         LET days == participants[pk].enrollment_date + 7 - today
             color == status_color(participants[pk])
         IN  /\ days_remaining(participants[pk]) = participants[pk].due_date - today
             /\ days_remaining(participants[pk]) = days
             /\ color \in {"green", "yellow", "red", "overdue"}
             /\ color = "green" <=> days >= 4
             /\ color = "yellow" <=> days \in {2, 3}
             /\ color = "red" <=> days \in {0, 1}
             /\ color = "overdue" <=> days < 0
    /\ response.view = "status_color" =>
         \A pk \in response.rows :
            LET days == participants[pk].enrollment_date + 7 - today
            IN  response.status =
                  IF days >= 4 THEN "green"
                  ELSE IF days >= 2 THEN "yellow"
                  ELSE IF days >= 0 THEN "red" ELSE "overdue"

\* status_color() answered 'yellow' for a record with three days left
C20_Witness ==
    /\ response.view = "status_color"
    /\ response.status = "yellow"
    /\ \E pk \in response.rows : participants[pk].enrollment_date + 7 - today = 3

\* a count box holds a whole number: it is absent (the count is then 0) or
\* its text is made of digits
WholeNumber(v) == v = None \/ IsDigits(v)

\* the date box is left out or holds a date
WellFormedDate(v) == ~Truthy(v) \/ strptime(v).ok

\* the selected site_id is the primary key of a site
KnownSite(v) == \E i \in DOMAIN SiteTable : v = <<DigitChars[i + 1]>>

SelectedSite(v) == SiteTable[CHOOSE i \in DOMAIN SiteTable : v = <<DigitChars[i + 1]>>]

\* an AD or a superuser, who selects the site on the form
SelectsSite(user) ==
    user.role \notin {"RA", "RO"} /\ (user.is_superuser \/ user.role = "AD")

\* C21: a POST to screening_view stores a session only with a determined
\* site (the own site of an RA or RO, the selected site of an AD or
\* superuser); when a count is not a whole number, the date is malformed or
\* an AD or superuser selects no site or an unknown site, it redirects back
\* with an error and stores nothing; after a save it redirects to the
\* registration exactly when number_eligible > 0; every stored session has a
\* site.
C21_ScreeningStoresOnlyWithSite ==
    [][\A user \in ScreeningUsers, post \in ScreeningPosts :
         screening_view(user, "POST", post) =>
           LET stored == screenings' # screenings
               new == screenings'[Len(screenings')]
           IN  /\ \A i \in DOMAIN screenings' : screenings'[i].site \in Sites
               /\ stored =>
                    IF user.role \in {"RA", "RO"} THEN new.site = user.site
                    ELSE /\ SelectsSite(user)
                         /\ KnownSite(post.site_id)
                         /\ new.site = SelectedSite(post.site_id)
               /\ (\/ ~WholeNumber(post.number_screened)
                   \/ ~WholeNumber(post.eligible)
                   \/ ~WellFormedDate(post.screening_date)
                   \/ SelectsSite(user) /\ ~KnownSite(post.site_id))
                    => response'.status = "redirect_screening" /\ ~stored
               /\ stored =>
                    (response'.status = "redirect_register_participant"
                       <=> new.number_eligible > 0)]_vars

\* C22: a scheduled run of the daily reminder job executes Command.handle:
\* after cron has run the job of CRONJOBS, the reminder command has run.
C22_ScheduledRunExecutesHandle ==
    response.view = "crontab_run" => response.run.status # "not_run"

====
